---- MODULE Spec2Model ----
(***************************************************************************)
(* Model of verify.py: a Streamlit script that loads bibliographic         *)
(* records, filters them by page count, fits one TF-IDF index per facet    *)
(* and recommends records either from a chosen record ("similar books")    *)
(* or from keywords.                                                       *)
(*                                                                         *)
(* Strings are sequences of one-character strings, so that searching,      *)
(* stripping and lower-casing are computed and not assumed.  Python's None *)
(* is the integer None for the optional integers (year, pages).  Python    *)
(* list positions are 0-based; the model's are 1-based throughout.         *)
(***************************************************************************)
EXTENDS Integers, Sequences, FiniteSets, TLC

VARIABLES
    \* ---- one call of a pure helper (SpecYear, SpecRecency, SpecKeywords)
    pc,                \* "call" before the helper ran, "done" after, "off"
    args,              \* the helper's arguments
    ret,               \* the helper's return value
    \* ---- the Streamlit session (Spec)
    records,           \* build_records(data): the loaded catalogue
    include_no_pages,  \* sidebar checkbox
    page_range,        \* sidebar slider <<min, max>>
    matched_indices,   \* st.session_state.matched_indices
    sel_pos,           \* position chosen in the selectbox (0: not shown)
    last_q,            \* the search text that produced matched_indices
    weights,           \* the four weight sliders, in twentieths
    w_recency,         \* the recency slider, in twentieths
    top_n,             \* the Top N slider
    filtered,          \* positions in records kept by the last run's filter
    run,               \* how the last script run ended
    out                \* what the last run ranked (NoOut when it ranked nothing)

pureVars == <<pc, args, ret>>
knobs == <<weights, w_recency, top_n>>
sessVars == <<records, include_no_pages, page_range, matched_indices,
              sel_pos, last_q, weights, w_recency, top_n, filtered, run, out>>
vars == <<pc, args, ret, records, include_no_pages, page_range,
          matched_indices, sel_pos, last_q, weights, w_recency, top_n,
          filtered, run, out>>

None == 0 - 1

(***************************************************************************)
(* Generic sequence helpers.                                               *)
(***************************************************************************)
Range(s) == {s[i] : i \in 1..Len(s)}

Min(S) == CHOOSE x \in S : \A y \in S : x <= y

Max(S) == CHOOSE x \in S : \A y \in S : x >= y

RECURSIVE SumSeq(_)
SumSeq(s) == IF s = <<>> THEN 0 ELSE Head(s) + SumSeq(Tail(s))

RECURSIVE SeqsUpTo(_, _)
SeqsUpTo(S, n) ==
    IF n = 0 THEN {<<>>}
    ELSE LET shorter == SeqsUpTo(S, n - 1)
         IN  shorter \cup {Append(s, x) : s \in shorter, x \in S}

\* s[:n] for n >= 0
Take(s, n) == SubSeq(s, 1, IF n < Len(s) THEN n ELSE Len(s))

(***************************************************************************)
(* to_text (the branches for None, str, int and list).                     *)
(***************************************************************************)
DigitChars == <<"0", "1", "2", "3", "4", "5", "6", "7", "8", "9">>

IsDigit(c) == \E i \in 1..Len(DigitChars) : DigitChars[i] = c

DigitVal(c) == (CHOOSE i \in 1..Len(DigitChars) : DigitChars[i] = c) - 1

\* str(n) for n >= 0
RECURSIVE Decimal(_)
Decimal(n) ==
    IF n < 10 THEN <<DigitChars[n + 1]>>
    ELSE Append(Decimal(n \div 10), DigitChars[(n % 10) + 1])

\* " ".join(parts)
RECURSIVE JoinSpace(_)
JoinSpace(parts) ==
    IF parts = <<>> THEN <<>>
    ELSE IF Len(parts) = 1 THEN parts[1]
         ELSE parts[1] \o <<" ">> \o JoinSpace(Tail(parts))

VNone == [tag |-> "none"]
VStr(s) == [tag |-> "str", s |-> s]
VInt(n) == [tag |-> "int", n |-> n]
VList(l) == [tag |-> "list", l |-> l]

RECURSIVE to_text(_)
to_text(v) ==
    CASE v.tag = "none" -> <<>>
      [] v.tag = "str"  -> v.s
      [] v.tag = "int"  -> Decimal(v.n)
      [] v.tag = "list" -> JoinSpace([i \in 1..Len(v.l) |-> to_text(v.l[i])])

(***************************************************************************)
(* extract_year: YEAR_RE = (19|20)\d{2}, searched in four fields in order. *)
(***************************************************************************)
\* YEAR_RE matches s at position i
YearMatchAt(s, i) ==
    /\ i >= 1
    /\ i + 3 <= Len(s)
    /\ \/ s[i] = "1" /\ s[i + 1] = "9"
       \/ s[i] = "2" /\ s[i + 1] = "0"
    /\ IsDigit(s[i + 2])
    /\ IsDigit(s[i + 3])

\* YEAR_RE.search(s): the leftmost match's position, 0 when there is none
YearSearch(s) ==
    IF \E i \in 1..Len(s) : YearMatchAt(s, i)
    THEN Min({i \in 1..Len(s) : YearMatchAt(s, i)})
    ELSE 0

\* int(m.group(0)) for the match at position i
YearAt(s, i) ==
    1000 * DigitVal(s[i]) + 100 * DigitVal(s[i + 1])
        + 10 * DigitVal(s[i + 2]) + DigitVal(s[i + 3])

YearFields == <<"issuedYear", "issued", "datePublished", "publicationDate">>

\* a faulty variant: the candidates scanned from the lowest priority up
YearCandidatesReversed(book) ==
    [k \in 1..Len(YearFields) |-> to_text(book[YearFields[Len(YearFields) + 1 - k]])]

\* the candidate list of the for loop
YearCandidates(book) == [k \in 1..Len(YearFields) |-> to_text(book[YearFields[k]])]

RECURSIVE ExtractYearLoop(_, _)
ExtractYearLoop(cands, k) ==
    IF k > Len(cands) THEN None
    ELSE LET m == YearSearch(cands[k])
         IN  IF m # 0 THEN YearAt(cands[k], m)
             ELSE ExtractYearLoop(cands, k + 1)

extract_year(book) == ExtractYearLoop(YearCandidates(book), 1)

(***************************************************************************)
(* recency_weight, in fifths: the code returns (5 - d) / 5.0.              *)
(***************************************************************************)
Horizon == 5

\* a faulty variant: the lag not clamped at 0
RecencyLagUnclamped(year, now_year) == now_year - year

\* d = max(now_year - year, 0)
RecencyLag(year, now_year) == IF now_year - year > 0 THEN now_year - year ELSE 0

recency_weight(year, now_year) ==
    IF year = None THEN 0
    ELSE LET d == RecencyLag(year, now_year)
         IN  IF d <= Horizon THEN Horizon - d ELSE 0

(***************************************************************************)
(* pick_related_keywords.                                                  *)
(***************************************************************************)
\* k.strip(): leading and trailing blanks removed
RECURSIVE LStrip(_)
LStrip(s) == IF s # <<>> /\ Head(s) = " " THEN LStrip(Tail(s)) ELSE s

RECURSIVE RStrip(_)
RStrip(s) ==
    IF s # <<>> /\ s[Len(s)] = " " THEN RStrip(SubSeq(s, 1, Len(s) - 1)) ELSE s

Strip(s) == RStrip(LStrip(s))

\* the for loop that fills result from subs, entered at subs[k]
RECURSIVE FillLoop(_, _, _, _)
FillLoop(subs, k, result, n) ==
    IF k > Len(subs) THEN result
    ELSE LET r2 == IF subs[k] \notin Range(result)
                   THEN Append(result, subs[k]) ELSE result
         IN  IF Len(r2) >= n THEN r2
             ELSE FillLoop(subs, k + 1, r2, n)

\* picked_keywords is a set here: the code turns the list into one at once
pick_related_keywords(subjects, picked_keywords, n) ==
    LET NonEmpty(s) == s # <<>>
        subs == SelectSeq(subjects, NonEmpty)
        picked_set == {Strip(k) : k \in {x \in picked_keywords : Strip(x) # <<>>}}
        InPicked(s) == s \in picked_set
        inter == SelectSeq(subs, InPicked)
        result == Take(inter, n)
    IN  IF subs = <<>> THEN <<>>
        ELSE IF Len(result) < n
             THEN Take(FillLoop(subs, 1, result, n), n)
             ELSE Take(result, n)

(***************************************************************************)
(* The catalogue.  A facet text holds at most one term ("" is the empty    *)
(* text), so that the cosine of two TF-IDF rows is exactly 1 (same term)   *)
(* or 0 (different terms, or an empty row), whatever the idf values are.   *)
(***************************************************************************)
MaxRecords == 4

NowYear == 2026

Facets == <<"subj", "desc", "creator", "publisher">>

BookPool ==
    { [title |-> <<"A", "b">>, pages |-> 1, year |-> NowYear,
       subj |-> "t1", desc |-> "t1", creator |-> "t1", publisher |-> "t1"],
      [title |-> <<"A", "b">>, pages |-> 3, year |-> NowYear - 2,
       subj |-> "t2", desc |-> "", creator |-> "t1", publisher |-> "t2"],
      [title |-> <<"b">>, pages |-> None, year |-> None,
       subj |-> "t1", desc |-> "", creator |-> "", publisher |-> "t2"],
      [title |-> <<"b", "c">>, pages |-> 3, year |-> NowYear - 2,
       subj |-> "t2", desc |-> "t2", creator |-> "t2", publisher |-> "t1"] }

\* the catalogues: up to MaxRecords different books of the pool, in any order
Catalogues ==
    {c \in SeqsUpTo(BookPool, MaxRecords) :
        c # <<>> /\ \A i, j \in 1..Len(c) : c[i] = c[j] => i = j}

(***************************************************************************)
(* The page filter.                                                        *)
(***************************************************************************)
pages_list(recs) == {recs[i].pages : i \in {j \in 1..Len(recs) : recs[j].pages # None}}

min_pages(recs) == IF pages_list(recs) # {} THEN Min(pages_list(recs)) ELSE 0

max_pages(recs) == IF pages_list(recs) # {} THEN Max(pages_list(recs)) ELSE 2000

\* the values the range slider is moved to: every page count between the
\* catalogue's extremes, or the two ends of the default range
SliderStops(recs) ==
    IF pages_list(recs) # {} THEN min_pages(recs)..max_pages(recs)
    ELSE {min_pages(recs), max_pages(recs)}

\* a faulty variant: the upper bound exclusive
pass_page_filter_exclusive(p, inc, rng) ==
    IF p = None THEN inc ELSE rng[1] <= p /\ p < rng[2]

pass_page_filter(p, inc, rng) ==
    IF p = None THEN inc ELSE rng[1] <= p /\ p <= rng[2]

\* filtered = [r for r in records if pass_page_filter(r["pages"])], as the
\* positions of the kept records
FilterRecords(recs, inc, rng) ==
    LET Keep(i) == pass_page_filter(recs[i].pages, inc, rng)
    IN  SelectSeq([i \in 1..Len(recs) |-> i], Keep)

\* titles = [r["title"] for r in filtered]
Titles(recs, f) == [k \in 1..Len(f) |-> recs[f[k]].title]

\* TfidfVectorizer().fit_transform raises ValueError (empty vocabulary) when
\* no document of the corpus holds a term
FitFails(recs, f) ==
    \E c \in 1..Len(Facets) : \A k \in 1..Len(f) : recs[f[k]][Facets[c]] = ""

\* where a run ends before the two columns are drawn: st.stop() on an empty
\* filter, the uncaught fit error, or "ok"
EarlyEnd(recs, f) ==
    IF f = <<>> THEN "stopped"
    ELSE IF FitFails(recs, f) THEN "fit_error"
    ELSE "ok"

(***************************************************************************)
(* Title search (the search button's handler).                             *)
(***************************************************************************)
LowerChar(c) ==
    CASE c = "A" -> "a"
      [] c = "B" -> "b"
      [] OTHER -> c

\* s.lower()
Lower(s) == [i \in 1..Len(s) |-> LowerChar(s[i])]

\* q in t
Contains(t, q) ==
    \E i \in 0..(Len(t) - Len(q)) : SubSeq(t, i + 1, i + Len(q)) = q

\* matches = [i for i, t in enumerate(titles) if q in (t or "").lower()]
SearchMatches(titles, q) ==
    LET Hit(i) == Contains(Lower(titles[i]), q)
    IN  SelectSeq([i \in 1..Len(titles) |-> i], Hit)

\* options = [titles[i] for i in st.session_state.matched_indices]
Options(titles, m) == [k \in 1..Len(m) |-> titles[m[k]]]

\* titles[i] raises IndexError for a stored index beyond the current titles
StaleIndex(f, m) == \E k \in 1..Len(m) : m[k] > Len(f)

\* for i in matched_indices: if titles[i] == target_title: idx = i; break
\* (0 stands for idx = None), target_title being the selected option
ResolveIdx(m, titles, pos) ==
    LET target_title == Options(titles, m)[pos]
        Same(i) == titles[i] = target_title
        hits == SelectSeq(m, Same)
    IN  IF hits = <<>> THEN 0 ELSE Head(hits)

(***************************************************************************)
(* Weights and scores.  A slider weight is a number of twentieths (the     *)
(* sliders step by 0.05); a score is kept as a numerator over a            *)
(* denominator that is the same for every record of one ranking.           *)
(***************************************************************************)
WeightUnit == 20

DefaultProfile == <<9, 6, 3, 2>>

\* a faulty variant: equal weights substituted for the all-zero profile
NormalizeWeightsEqual(w) ==
    LET w_sum == SumSeq(w)
    IN  IF w_sum = 0 THEN [num |-> <<5, 5, 5, 5>>, den |-> WeightUnit]
        ELSE [num |-> w, den |-> w_sum]

\* w_sum == 0 substitutes the default profile and w_sum = 1.0; then every
\* weight is divided by w_sum
NormalizeWeights(w) ==
    LET w_sum == SumSeq(w)
    IN  IF w_sum = 0 THEN [num |-> DefaultProfile, den |-> WeightUnit]
        ELSE [num |-> w, den |-> w_sum]

\* cosine_similarity of two rows holding at most one term each
Cosine(a, b) == IF a # "" /\ a = b THEN 1 ELSE 0

\* the four similarity vectors of a query row against the corpus
SimsOf(recs, f, qrow) ==
    [c \in 1..Len(Facets) |->
        [k \in 1..Len(f) |-> Cosine(qrow[c], recs[f[k]][Facets[c]])]]

\* X_f[idx] for the four facets
RowOf(recs, f, idx) == [c \in 1..Len(Facets) |-> recs[f[idx]][Facets[c]]]

\* vec_f.transform([query]) for the four facets: the same query text
QueryRow(query) == [c \in 1..Len(Facets) |-> query]

\* numerator of w_subj*s_subj + w_desc*s_desc + w_auth*s_auth + w_pub*s_pub
\* over wn.den
combine_content_score(wn, sims, k) ==
    SumSeq([c \in 1..Len(Facets) |-> wn.num[c] * sims[c][k]])

\* numerator of (1 - w_recency) * content_sim + w_recency * rec_vec over
\* WeightUnit * den * Horizon
final_score(content, rec, ratio, den) ==
    (WeightUnit - ratio) * content * Horizon + ratio * rec * den

\* recency_vec
RecencyVec(recs, f) == [k \in 1..Len(f) |-> recency_weight(recs[f[k]].year, NowYear)]

FinalVector(recs, f, wn, ratio, sims) ==
    [k \in 1..Len(f) |->
        final_score(combine_content_score(wn, sims, k),
                    RecencyVec(recs, f)[k], ratio, wn.den)]

\* a.argsort(): the default kind is not a stable sort, so every ascending
\* arrangement of the positions in S is a possible result
RECURSIVE Argsort(_, _)
Argsort(a, S) ==
    IF S = {} THEN {<<>>}
    ELSE UNION { {<<i>> \o t : t \in Argsort(a, S \ {i})} :
                 i \in {j \in S : \A k \in S : a[j] <= a[k]} }

\* s[::-1]
Reverse(s) == [i \in 1..Len(s) |-> s[Len(s) + 1 - i]]

\* a faulty variant: the query record left in
RecsByRecordKeepSelf(order, idx, n) == Take(order, n)

\* recs = [i for i in order if i != idx][:top_n]
RecsByRecord(order, idx, n) ==
    LET NotSelf(i) == i # idx
    IN  Take(SelectSeq(order, NotSelf), n)

\* order = final.argsort()[::-1][:top_n]
RecsByKeyword(order, n) == Take(order, n)

(***************************************************************************)
(* The session: every action is one rerun of the script.                   *)
(***************************************************************************)
TopNMin == 3

TopNDefault == 5

RecencyDefault == 6

\* the values the model moves the Top N slider to
TopNs == {TopNMin, TopNDefault}

\* the weight profiles the model sets the four sliders to (twentieths)
Profiles == {<<0, 0, 0, 0>>, DefaultProfile, <<0, 10, 10, 20>>}

\* the recency ratios the model sets the slider to (twentieths)
RecencySteps == {0, RecencyDefault}

\* the search texts typed into the title field
SearchTexts == {<<>>, <<"a">>, <<" ", "B">>, <<"z">>}

\* the search texts of the ranking runs: nothing, a text every title of the
\* pool holds, a text no title holds
RankSearchTexts == {<<>>, <<" ", "B">>, <<"z">>}

\* the keyword queries: a term of the corpus, an unknown term, nothing
KeywordQueries == {"t1", "t2", "t9", ""}

NoOut == [mode |-> "none"]

PureOff == pc = "off" /\ args = <<>> /\ ret = None

\* how column 1 ends for filtered set f and stored matches m
Col1End(f, m) == IF m # <<>> /\ StaleIndex(f, m) THEN "index_error" ELSE "idle"

\* the selectbox after a run that drew column 1 with f and m: a selectbox
\* whose options are those of the last run keeps its value, any other one
\* starts at index 0; it is not drawn without matches
NextSel(f, m) ==
    IF m = <<>> \/ StaleIndex(f, m) THEN 0
    ELSE IF /\ sel_pos > 0
            /\ Options(Titles(records, f), m)
                 = Options(Titles(records, filtered), matched_indices)
         THEN sel_pos
         ELSE 1

\* the state the first run of the script leaves behind
FirstRun ==
    /\ include_no_pages = TRUE
    /\ page_range = <<min_pages(records), max_pages(records)>>
    /\ weights = DefaultProfile
    /\ w_recency = RecencyDefault
    /\ top_n = TopNDefault
    /\ matched_indices = <<>>
    /\ sel_pos = 0
    /\ last_q = <<>>
    /\ filtered = FilterRecords(records, include_no_pages, page_range)
    /\ run = LET e == EarlyEnd(records, filtered)
             IN  IF e = "ok" THEN "idle" ELSE e
    /\ out = NoOut

Init ==
    /\ PureOff
    /\ records \in Catalogues
    /\ FirstRun

\* the checkbox or the range slider is moved: a rerun without a button
SetFilter(inc, rng) ==
    /\ <<inc, rng>> # <<include_no_pages, page_range>>
    /\ LET f == FilterRecords(records, inc, rng)
           e == EarlyEnd(records, f)
       IN  /\ include_no_pages' = inc
           /\ page_range' = rng
           /\ filtered' = f
           /\ run' = IF e # "ok" THEN e ELSE Col1End(f, matched_indices)
           /\ sel_pos' = IF e # "ok" THEN 0 ELSE NextSel(f, matched_indices)
           /\ out' = NoOut
    /\ UNCHANGED <<pureVars, records, knobs, matched_indices, last_q>>

\* a weight, recency or Top N slider is moved: a rerun without a button.
\* These sliders are drawn after the fit, so only by a run that got there.
SetKnobs(w, r, n) ==
    /\ run \notin {"stopped", "fit_error"}
    /\ <<w, r, n>> # knobs
    /\ \/ w = weights /\ r = w_recency
       \/ w = weights /\ n = top_n
       \/ r = w_recency /\ n = top_n
    /\ weights' = w
    /\ w_recency' = r
    /\ top_n' = n
    /\ run' = Col1End(filtered, matched_indices)
    /\ out' = NoOut
    /\ UNCHANGED <<pureVars, records, include_no_pages, page_range,
                   matched_indices, sel_pos, last_q, filtered>>

\* the search button, drawn by every run that reached column 1
Search(text) ==
    /\ run \notin {"stopped", "fit_error"}
    /\ LET q == Lower(Strip(text))
           m == IF q = <<>> THEN <<>>
                ELSE SearchMatches(Titles(records, filtered), q)
       IN  /\ matched_indices' = m
           /\ last_q' = q
           /\ sel_pos' = NextSel(filtered, m)
           /\ run' = Col1End(filtered, m)
           /\ out' = NoOut
    /\ UNCHANGED <<pureVars, records, knobs, include_no_pages, page_range, filtered>>

\* another option is chosen in the selectbox: a rerun without a button
Select(k) ==
    /\ sel_pos > 0
    /\ k \in 1..Len(matched_indices)
    /\ k # sel_pos
    /\ sel_pos' = k
    /\ run' = "idle"
    /\ out' = NoOut
    /\ UNCHANGED <<pureVars, records, knobs, include_no_pages, page_range,
                   matched_indices, last_q, filtered>>

\* the "similar books" button, drawn under the selectbox
RecommendSimilar ==
    /\ sel_pos > 0
    /\ LET titles == Titles(records, filtered)
           idx == ResolveIdx(matched_indices, titles, sel_pos)
           wn == NormalizeWeights(weights)
       IN  IF idx = 0
           THEN run' = "not_found" /\ out' = NoOut
           ELSE LET sims == SimsOf(records, filtered, RowOf(records, filtered, idx))
                    final == FinalVector(records, filtered, wn, w_recency, sims)
                IN  \E asc \in Argsort(final, 1..Len(filtered)) :
                        /\ run' = "by_record"
                        /\ out' = [mode |-> "record", idx |-> idx, query |-> "",
                                   w_norm |-> wn, final |-> final,
                                   recs |-> RecsByRecord(Reverse(asc), idx, top_n)]
    /\ UNCHANGED <<pureVars, records, knobs, include_no_pages, page_range,
                   matched_indices, sel_pos, last_q, filtered>>

\* the keyword button, drawn by every run that reached column 2
RecommendKeywords(query) ==
    /\ run \notin {"stopped", "fit_error", "index_error"}
    /\ LET wn == NormalizeWeights(weights)
       IN  IF query = ""
           THEN run' = "kw_warning" /\ out' = NoOut
           ELSE LET sims == SimsOf(records, filtered, QueryRow(query))
                    final == FinalVector(records, filtered, wn, w_recency, sims)
                IN  \E asc \in Argsort(final, 1..Len(filtered)) :
                        /\ run' = "by_keyword"
                        /\ out' = [mode |-> "keyword", idx |-> 0, query |-> query,
                                   w_norm |-> wn, final |-> final,
                                   recs |-> RecsByKeyword(Reverse(asc), top_n)]
    /\ UNCHANGED <<pureVars, records, knobs, include_no_pages, page_range,
                   matched_indices, sel_pos, last_q, filtered>>

Next ==
    \/ \E inc \in BOOLEAN, lo \in SliderStops(records), hi \in SliderStops(records) :
          lo <= hi /\ SetFilter(inc, <<lo, hi>>)
    \/ \E text \in SearchTexts : Search(text)
    \/ \E k \in 1..MaxRecords : Select(k)
    \/ RecommendSimilar
    \/ \E q \in KeywordQueries : RecommendKeywords(q)

\* The session with the filter and the search varied and the ranking
\* sliders left at their defaults.
Spec == Init /\ [][Next]_vars

NextRank ==
    \/ \E w \in Profiles, r \in RecencySteps, n \in TopNs : SetKnobs(w, r, n)
    \/ \E text \in RankSearchTexts : Search(text)
    \/ \E k \in 1..MaxRecords : Select(k)
    \/ RecommendSimilar
    \/ \E q \in KeywordQueries : RecommendKeywords(q)

\* The session with the ranking sliders varied and the filter left at its
\* default.
SpecRank == Init /\ [][NextRank]_vars

(***************************************************************************)
(* One call of a pure helper, on arguments drawn from bounded sets.        *)
(***************************************************************************)
SessionOff ==
    /\ records = <<>>
    /\ include_no_pages = TRUE
    /\ page_range = <<0, 0>>
    /\ matched_indices = <<>>
    /\ sel_pos = 0
    /\ last_q = <<>>
    /\ weights = DefaultProfile
    /\ w_recency = RecencyDefault
    /\ top_n = TopNDefault
    /\ filtered = <<>>
    /\ run = "off"
    /\ out = NoOut

\* the raw values a date field of a book holds
FieldPool ==
    { VNone,
      VInt(1988),
      VInt(77),
      VStr(<<"x", "2", "0", "1", "9">>),
      VStr(<<"1", "8", "9", "9", "2", "0", "0", "1">>),
      VStr(<<"2", "0", "9", "9", "1", "9", "0", "0">>),
      VStr(<<"2", "0", "1">>),
      VList(<<VStr(<<"1", "9">>), VInt(88)>>),
      VList(<<VStr(<<"x">>), VInt(1900)>>) }

InitYear ==
    /\ pc = "call"
    /\ args \in [issuedYear : FieldPool, issued : FieldPool,
                 datePublished : FieldPool, publicationDate : FieldPool]
    /\ ret = None
    /\ SessionOff

CallExtractYear ==
    /\ pc = "call"
    /\ ret' = extract_year(args)
    /\ pc' = "done"
    /\ UNCHANGED <<args, sessVars>>

SpecYear == InitYear /\ [][CallExtractYear]_vars

MaxLag == 8

MaxLead == 2

YearSpread == 2

\* the publication years tried against reference year now
YearsAround(now) == {None} \cup ((now - MaxLag)..(now + MaxLead))

InitRecency ==
    /\ pc = "call"
    /\ \E now \in (NowYear - YearSpread)..(NowYear + YearSpread) :
         \E y \in YearsAround(now) : args = [year |-> y, now_year |-> now]
    /\ ret = None
    /\ SessionOff

CallRecencyWeight ==
    /\ pc = "call"
    /\ ret' = recency_weight(args.year, args.now_year)
    /\ pc' = "done"
    /\ UNCHANGED <<args, sessVars>>

SpecRecency == InitRecency /\ [][CallRecencyWeight]_vars

MaxSubjects == 3

MaxPickTopN == 3

SubjectPool == {<<"a">>, <<"b">>, <<"c">>, <<>>}

PickPool == {<<"a">>, <<" ", "b">>, <<" ">>}

InitKeywords ==
    /\ pc = "call"
    /\ args \in [subjects : SeqsUpTo(SubjectPool, MaxSubjects),
                 picked_keywords : SUBSET PickPool,
                 top_n : 0..MaxPickTopN]
    /\ ret = <<>>
    /\ SessionOff

CallPickRelatedKeywords ==
    /\ pc = "call"
    /\ ret' = pick_related_keywords(args.subjects, args.picked_keywords, args.top_n)
    /\ pc' = "done"
    /\ UNCHANGED <<args, sessVars>>

SpecKeywords == InitKeywords /\ [][CallPickRelatedKeywords]_vars

(***************************************************************************)
(* The claims.                                                             *)
(***************************************************************************)
Ranked == run \in {"by_record", "by_keyword"}

\* C1: the "similar books" action never lists the query record idx among
\* the recommended indices, whatever idx's final score is.
C1_QueryRecordExcluded ==
    run = "by_record" =>
        \A k \in 1..Len(out.recs) : out.recs[k] # out.idx

\* C1 witness: a "similar books" ranking with results in which the query
\* record holds the highest final score of all.
C1_Witness ==
    /\ run = "by_record"
    /\ out.recs # <<>>
    /\ \A k \in 1..Len(filtered) : out.final[out.idx] > out.final[k] \/ k = out.idx

\* C2: in both modes the results are in descending order of final score,
\* records of equal final score in ascending order of their index.
C2_DescendingTiesByIndex ==
    Ranked =>
        \A i, j \in 1..Len(out.recs) :
            i < j =>
                \/ out.final[out.recs[i]] > out.final[out.recs[j]]
                \/ /\ out.final[out.recs[i]] = out.final[out.recs[j]]
                   /\ out.recs[i] < out.recs[j]

\* the query row of the ranking held in out
OutQueryRow ==
    IF out.mode = "record" THEN RowOf(records, filtered, out.idx)
    ELSE QueryRow(out.query)

\* the final scores the default profile gives for the ranking held in out
DefaultFinal ==
    FinalVector(records, filtered,
                [num |-> <<9, 6, 3, 2>>, den |-> 20], w_recency,
                SimsOf(records, filtered, OutQueryRow))

\* the result lists the final scores in final allow for the ranking in out
RankingsOf(final) ==
    {IF out.mode = "record" THEN RecsByRecord(Reverse(asc), out.idx, top_n)
     ELSE RecsByKeyword(Reverse(asc), top_n) :
        asc \in Argsort(final, 1..Len(filtered))}

\* C3: with the four weights all zero, the weights used, the final scores
\* and the ranking are those of the default profile 0.45/0.30/0.15/0.10;
\* with any other profile the four weights used sum to 1.
C3_ZeroWeightsAreDefault ==
    Ranked =>
        /\ weights = <<0, 0, 0, 0>> =>
              /\ out.w_norm = [num |-> <<9, 6, 3, 2>>, den |-> 20]
              /\ out.final = DefaultFinal
              /\ out.recs \in RankingsOf(DefaultFinal)
        /\ weights # <<0, 0, 0, 0>> =>
              /\ out.w_norm.den > 0
              /\ SumSeq(out.w_norm.num) = out.w_norm.den
              /\ \A c \in 1..Len(Facets) :
                    out.w_norm.num[c] * SumSeq(weights) = weights[c] * out.w_norm.den

\* C3 witness: a ranking under all-zero weights in which the content score
\* decides (some record scores above another).
C3_Witness ==
    /\ Ranked
    /\ weights = <<0, 0, 0, 0>>
    /\ \E i, k \in 1..Len(filtered) : out.final[i] > out.final[k] /\ out.final[k] > 0

\* facet c is empty in every record of the filtered set
FacetAllEmpty(c) ==
    \A k \in 1..Len(filtered) : records[filtered[k]][Facets[c]] = ""

\* C4: when one facet is empty in every record of the FilteredSet and
\* another facet is not, building the indices still succeeds (the run does
\* not end in the fit's error).
C4_EmptyFacetStillRanks ==
    (/\ filtered # <<>>
     /\ \E c \in 1..Len(Facets) : FacetAllEmpty(c)
     /\ \E c \in 1..Len(Facets) : ~FacetAllEmpty(c))
        => run # "fit_error"

\* C5: a record is kept iff (pages absent and include_missing_pages) or
\* (pages present and min <= pages <= max); the FilteredSet keeps the input
\* order; an empty FilteredSet stops the run before any ranking.
C5_PageFilter ==
    /\ \A k \in 1..Len(filtered) : filtered[k] \in 1..Len(records)
    /\ \A i, j \in 1..Len(filtered) : i < j => filtered[i] < filtered[j]
    /\ \A i \in 1..Len(records) :
          i \in Range(filtered) <=>
              \/ records[i].pages = None /\ include_no_pages
              \/ /\ records[i].pages # None
                 /\ page_range[1] <= records[i].pages
                 /\ records[i].pages <= page_range[2]
    /\ filtered = <<>> => run = "stopped" /\ out = NoOut
    /\ run = "stopped" => filtered = <<>>

\* C5 witness: a record kept with its page count on the range's upper
\* bound, one dropped for a page count outside the range, and one dropped
\* for its missing page count.
C5_Witness ==
    /\ \E k \in 1..Len(filtered) : records[filtered[k]].pages = page_range[2]
    /\ \E i \in 1..Len(records) :
          /\ records[i].pages # None
          /\ records[i].pages < page_range[1]
          /\ i \notin Range(filtered)
    /\ \E i \in 1..Len(records) :
          records[i].pages = None /\ i \notin Range(filtered)

\* the picked keywords as the code compares them
PickedSet == {Strip(k) : k \in {x \in args.picked_keywords : Strip(x) # <<>>}}

\* C6: pick_related_keywords returns at most top_n entries, no entry
\* twice, picked subjects before the others, each group in the order of
\* subjects, and nothing for empty subjects.
C6_PickRelatedKeywords ==
    pc = "done" =>
        /\ Len(ret) <= args.top_n
        /\ \A i, j \in 1..Len(ret) : i # j => ret[i] # ret[j]
        /\ \A i, j \in 1..Len(ret) :
              i < j /\ ret[j] \in PickedSet => ret[i] \in PickedSet
        /\ \A i, j \in 1..Len(ret) :
              (i < j /\ (ret[i] \in PickedSet <=> ret[j] \in PickedSet)) =>
                  \E a, b \in 1..Len(args.subjects) :
                      a <= b /\ args.subjects[a] = ret[i] /\ args.subjects[b] = ret[j]
        /\ args.subjects = <<>> => ret = <<>>

\* C7: recency_weight is 0 for an absent year, else (5 - d)/5 for
\* d = max(ref - year, 0) <= 5 and 0 beyond; so it lies in [0, 1], is 1 for
\* year >= ref, 0 for year <= ref - 5, and never grows with the lag.
C7_RecencyWeight ==
    pc = "done" =>
        LET y == args.year
            now == args.now_year
            d == IF now - y > 0 THEN now - y ELSE 0
        IN  /\ y = None => ret = 0
            /\ y # None /\ d <= 5 => ret = 5 - d
            /\ y # None /\ d > 5 => ret = 0
            /\ 0 <= ret /\ ret <= 5
            /\ y # None /\ y >= now => ret = 5
            /\ y # None /\ y <= now - 5 => ret = 0
            /\ \A y2 \in YearsAround(now) \ {None} :
                  y # None /\ now - y2 >= now - y =>
                      recency_weight(y2, now) <= ret

\* C7 witness: a year after the reference year, weighted 1.
C7_Witness ==
    /\ pc = "done"
    /\ args.year # None
    /\ args.year > args.now_year
    /\ ret = 5

\* the text of date field k of the book in args
FieldText(k) == to_text(args[YearFields[k]])

HasYear(s) == \E i \in 1..Len(s) : YearMatchAt(s, i)

FirstYearOf(s) == YearAt(s, Min({i \in 1..Len(s) : YearMatchAt(s, i)}))

\* C8: extract_year returns the first 19xx/20xx match of the
\* highest-priority field that has a match, is absent exactly when no
\* field matches, and a present result lies in 1900..2099.
C8_ExtractYear ==
    pc = "done" =>
        LET matching == {k \in 1..Len(YearFields) : HasYear(FieldText(k))}
        IN  /\ ret = None <=> matching = {}
            /\ matching # {} => ret = FirstYearOf(FieldText(Min(matching)))
            /\ ret # None => ret \in 1900..2099

\* C8 witness: the first field has no match, a later one gives the result,
\* and a field after that one holds a different year.
C8_Witness ==
    /\ pc = "done"
    /\ ret # None
    /\ ~HasYear(FieldText(1))
    /\ \E k, l \in 1..Len(YearFields) :
          /\ k < l
          /\ \A j \in 1..(k - 1) : ~HasYear(FieldText(j))
          /\ HasYear(FieldText(k))
          /\ HasYear(FieldText(l))
          /\ FirstYearOf(FieldText(l)) # ret

\* C9: every index of the match list is a position of the current
\* FilteredSet whose title matched the last search, and no run reads a
\* title out of range.
C9_MatchesScopedToFilteredSet ==
    /\ run # "index_error"
    /\ \A k \in 1..Len(matched_indices) :
          /\ matched_indices[k] \in 1..Len(filtered)
          /\ Contains(Lower(records[filtered[matched_indices[k]]].title), last_q)

\* C10: the query record of a "similar books" ranking is the candidate
\* selected in the search results; such a ranking needs a non-empty match
\* list; an empty or unmatched search text leaves the match list empty.
C10_QueryIsSelectedCandidate ==
    /\ run = "by_record" =>
          /\ matched_indices # <<>>
          /\ out.idx = matched_indices[sel_pos]
    /\ last_q = <<>> => matched_indices = <<>>
    /\ (\A k \in 1..Len(filtered) :
            ~Contains(Lower(records[filtered[k]].title), last_q))
          => matched_indices = <<>>

====
